---------------------------- MODULE Spec2Model ----------------------------
(***************************************************************************)
(* Background jobs of src/lib/inngest/function.js:                         *)
(*   - processRecurringTransaction / triggerRecurringTransactions          *)
(*   - checkBudgetAlerts                                                   *)
(*   - the throttle configured on processRecurringTransaction              *)
(*   - calculateNextRecurringDate / isTransactionDue                       *)
(*                                                                         *)
(* Dates.  A JavaScript Date is modelled by its local calendar fields      *)
(* (year, month 0..11, day of month, time of day in ticks), packed into    *)
(* one integer whose order is the order of the time values.  The host      *)
(* is taken to run in a zone without daylight-saving shifts.               *)
(***************************************************************************)
EXTENDS Integers, Sequences, FiniteSets, Bags, TLC

\* ------------------------------------------------------------------ bounds
FirstYear == 2023        \* first calendar year of the modelled range
YearSpan == 2            \* the range is FirstYear .. FirstYear + YearSpan
TicksPerDay == 2         \* instants distinguished within one day

\* ------------------------------------------------------------- Date values
NULL == 0 - 1            \* null / undefined of a nullable column

Epoch == 0               \* new Date(null) is 1970-01-01, before every modelled date

MakeTime(y, m, d, t) == ((y * 12 + m) * 32 + d) * TicksPerDay + t

getFullYear(x) == x \div (12 * 32 * TicksPerDay)
getMonth(x) == (x \div (32 * TicksPerDay)) % 12
getDate(x) == (x \div TicksPerDay) % 32
TimeOfDay(x) == x % TicksPerDay

IsLeap(y) == (y % 4 = 0) /\ ((y % 100 # 0) \/ (y % 400 = 0))

DaysInMonth(y, m) ==
    IF m = 1 THEN (IF IsLeap(y) THEN 29 ELSE 28)
    ELSE IF m \in {3, 5, 8, 10} THEN 30 ELSE 31

\* MakeDay of the language: months past December carry into the year, months
\* before January borrow from it, days past the end of a month carry into the
\* following months, days before the first borrow from the month before.
RECURSIVE MakeDay(_, _, _, _)
MakeDay(y, m, d, t) ==
    IF m > 11 THEN MakeDay(y + 1, m - 12, d, t)
    ELSE IF m < 0 THEN MakeDay(y - 1, m + 12, d, t)
    ELSE IF d > DaysInMonth(y, m) THEN MakeDay(y, m + 1, d - DaysInMonth(y, m), t)
    ELSE IF d < 1
         THEN LET py == IF m = 0 THEN y - 1 ELSE y
                  pm == IF m = 0 THEN 11 ELSE m - 1
              IN  MakeDay(py, pm, d + DaysInMonth(py, pm), t)
    ELSE MakeTime(y, m, d, t)

setDate(x, d) == MakeDay(getFullYear(x), getMonth(x), d, TimeOfDay(x))
setMonth(x, m) == MakeDay(getFullYear(x), m, getDate(x), TimeOfDay(x))
setFullYear(x, y) == MakeDay(y, getMonth(x), getDate(x), TimeOfDay(x))

\* new Date(value): a fresh object holding the same time value; null gives
\* the epoch.
NewDate(x) == IF x = NULL THEN Epoch ELSE x

\* new Date(year, monthIndex, day): that day at 00:00.
NewDateOf(y, m, d) == MakeDay(y, m, d, 0)

Years == FirstYear .. (FirstYear + YearSpan)

Dates ==
    { MakeTime(y, m, d, t) : y \in Years, m \in 0 .. 11, d \in 1 .. 31,
                             t \in 0 .. (TicksPerDay - 1) }

ValidDates == { x \in Dates : getDate(x) <= DaysInMonth(getFullYear(x), getMonth(x)) }

Intervals == {"DAILY", "WEEKLY", "MONTHLY", "YEARLY"}

\* ------------------------------------------- calculateNextRecurringDate
\* The result of a call: ret is the returned Date, arg is the time value the
\* caller's Date object holds once the call has returned.
AliasedNextRecurringDate(date, interval) ==
    LET next == date
        moved == CASE interval = "DAILY" -> setDate(next, getDate(next) + 1)
                   [] interval = "WEEKLY" -> setDate(next, getDate(next) + 7)
                   [] interval = "MONTHLY" -> setMonth(next, getMonth(next) + 1)
                   [] interval = "YEARLY" -> setFullYear(next, getFullYear(next) + 1)
                   [] OTHER -> next
    IN  [arg |-> moved, ret |-> moved]

calculateNextRecurringDate(date, interval) ==
    LET next == NewDate(date)
        moved == CASE interval = "DAILY" -> setDate(next, getDate(next) + 1)
                   [] interval = "WEEKLY" -> setDate(next, getDate(next) + 7)
                   [] interval = "MONTHLY" -> setMonth(next, getMonth(next) + 1)
                   [] interval = "YEARLY" -> setFullYear(next, getFullYear(next) + 1)
                   [] OTHER -> next
    IN  [arg |-> date, ret |-> moved]


\* ======================================================================
\* Recurring transactions: the store, the daily trigger and the processor
\* ======================================================================
MaxJobs == 2             \* processor executions that can be in flight at once
MaxTriggers == 2         \* firings of the daily trigger in one behaviour
MaxAdvances == 1         \* steps of the clock in one behaviour
MaxRetries == 1          \* retries of a failed step before the run is given up

VARIABLES
    now,            \* the clock read by new Date()
    transactions,   \* table Transaction: a sequence of rows, id = position
    accounts,       \* table Account: id -> balance
    events,         \* bag of "transaction.recurring.process" events not yet handled
    jobs,           \* the processor executions, by slot
    triggers,       \* firings of the trigger so far
    advances,       \* clock steps so far
    spawned,        \* history: the committed write units, in commit order
    skipped,        \* history: some run ended at the re-check without writing
    rejected        \* history: runs that returned { error: "Missing required event data" }

procVars ==
    <<now, transactions, accounts, events, jobs, triggers, advances, spawned, skipped,
      rejected>>

\* State of the budget evaluator (checkBudgetAlerts).
VARIABLES
    budgets,        \* table Budget: id -> [userId, amount, lastAlertSent]
    defaultAccount, \* owner -> id of the account flagged isDefault, NULL if none
    runs,           \* the evaluator executions, by id
    sends,          \* history: run -> budget -> calls of sendEmail so far
    delivered       \* history: run -> budget -> calls that resolved with success

budgetVars == <<budgets, defaultAccount, runs, sends, delivered>>

\* State of the throttle in front of processRecurringTransaction.
VARIABLES
    thrEmitted,     \* owner -> events sent by the trigger so far
    thrQueued,      \* owner -> events waiting to be started
    thrStarted,     \* owner -> processing jobs started so far
    thrRecent,      \* throttle key -> starts per tick of the current period
    thrStartsOf,    \* history: owner -> starts per tick of the current period
    thrBatches      \* batches sent so far

thrVars == <<thrEmitted, thrQueued, thrStarted, thrRecent, thrStartsOf, thrBatches>>

\* State of one call of calculateNextRecurringDate.
VARIABLES
    dateArg,        \* the Date object handed to the function
    intervalArg,    \* the interval handed to the function
    given,          \* history: the time value dateArg held before the call
    result          \* the returned Date, NULL before the call

calcVars == <<dateArg, intervalArg, given, result>>

\* State of the monthly reports (generateMonthlyReports) and of one call of
\* getMonthlyStats.
VARIABLES
    report,         \* the report execution
    reportsSent,    \* history: owner -> calls of sendEmail for the owner's report
    insightsSent,   \* history: owner -> the insights handed to the last such call
    userArg,        \* the owner handed to getMonthlyStats
    monthArg,       \* the month handed to getMonthlyStats
    fetchedRows,    \* history: the rows findMany returned, in the order returned
    monthlyStats    \* the returned stats, NotCalled before the call

reportVars ==
    <<report, reportsSent, insightsSent, userArg, monthArg, fetchedRows, monthlyStats>>

vars == <<procVars, budgetVars, thrVars, calcVars, reportVars>>

Users == {1, 2}
AccountIds == {1, 2}
JobIds == 1 .. MaxJobs

InitialBalance(a) == 10 * a

\* Row of table Transaction.
Template(user, account, type, amount, interval, date) ==
    [userId |-> user, accountId |-> account, type |-> type, amount |-> amount,
     category |-> "bills", date |-> date, isRecurring |-> TRUE,
     status |-> "COMPLETED", recurringInterval |-> interval,
     lastProcessed |-> NULL,
     nextRecurringDate |-> calculateNextRecurringDate(date, interval).ret]

NoRow ==
    [userId |-> NULL, accountId |-> NULL, type |-> "NONE", amount |-> 0,
     category |-> "", date |-> NULL, isRecurring |-> FALSE, status |-> "NONE",
     recurringInterval |-> "NONE", lastProcessed |-> NULL,
     nextRecurringDate |-> NULL]

NoWrites == [posting |-> <<>>, balance |-> <<>>, template |-> <<>>]

\* A processor slot at rest.  failedAt is the place the previous attempt of
\* the current run threw at.
IdleJob ==
    [pc |-> "idle", transactionId |-> NULL, userId |-> NULL, found |-> FALSE,
     transaction |-> NoRow, accountBalance |-> NULL, tx |-> NoWrites,
     attempts |-> 0, failedAt |-> "none"]

MantissaBits == 4        \* significant bits of a Number (53 in the language)

\* A Number is modelled by the integer it holds, counted in the smallest unit
\* of the Decimal columns; it keeps MantissaBits significant bits, and what
\* does not fit is rounded to the nearest Number, ties to the even one.
RECURSIVE UnitInLastPlace(_)
UnitInLastPlace(x) ==
    IF x < 2 ^ MantissaBits THEN 1 ELSE 2 * UnitInLastPlace(x \div 2)

RoundToNumber(x) ==
    LET u == UnitInLastPlace(x)
        q == x \div u
        r == x % u
    IN  IF 2 * r < u THEN q * u
        ELSE IF 2 * r > u THEN (q + 1) * u
        ELSE IF q % 2 = 0 THEN q * u ELSE (q + 1) * u

\* a + b of two Numbers
NumberAdd(a, b) == RoundToNumber(a + b)

\* Decimal.toNumber(): the Number nearest to the decimal amount.
toNumber(amount) == RoundToNumber(amount)

\* ----------------------------------------------------- isTransactionDue
AlwaysDue(transaction, today) == TRUE

isTransactionDue(transaction, today) ==
    IF transaction.lastProcessed = NULL THEN TRUE
    ELSE NewDate(transaction.nextRecurringDate) <= today

\* ------------------------------------------ the store's transaction unit
\* What a write unit that throws leaves behind: an interactive transaction
\* is rolled back as a whole.
KeepPartialWrites(tx) == tx

Rollback(tx) == NoWrites

\* data: { balance: { increment: balanceChange } } is one UPDATE that adds to
\* the row's current value while the row is locked.
OverwriteFromSnapshot(current, snapshot, balanceChange) == snapshot + balanceChange

Increment(current, snapshot, balanceChange) == current + balanceChange

\* The account row a write unit holds locked until it commits or rolls back.
LocksAccount(j, a) == jobs[j].tx.balance # <<>> /\ jobs[j].tx.balance[1].id = a

\* The store once the writes of tx are applied.
AppliedTransactions(tx) ==
    LET updated ==
            IF tx.template = <<>> THEN transactions
            ELSE [transactions EXCEPT
                    ![tx.template[1].id].lastProcessed = tx.template[1].lastProcessed,
                    ![tx.template[1].id].nextRecurringDate = tx.template[1].nextRecurringDate]
    IN  updated \o tx.posting

AppliedAccounts(tx) ==
    IF tx.balance = <<>> THEN accounts
    ELSE [accounts EXCEPT ![tx.balance[1].id] = tx.balance[1].value]


Idle(j) == jobs[j].pc = "idle"

\* The instants the behaviours start at: a year's last day and a 31st whose
\* following month is shorter.
StartTimes == {MakeTime(FirstYear, 11, 31, 1), MakeTime(FirstYear + 1, 0, 31, 0)}

NextTick(x) ==
    IF TimeOfDay(x) < TicksPerDay - 1 THEN x + 1
    ELSE setDate(x - TimeOfDay(x), getDate(x) + 1)

ProcInit(starts, firstIntervals) ==
    /\ now \in starts
    /\ \E i1 \in firstIntervals, o2 \in Users :
          transactions = << Template(1, 1, "EXPENSE", 3, i1, now),
                            Template(o2, o2, "INCOME", 5, "MONTHLY", now) >>
    /\ accounts = [a \in AccountIds |-> InitialBalance(a)]
    /\ events = EmptyBag
    /\ jobs = [j \in JobIds |-> IdleJob]
    /\ triggers = 0
    /\ advances = 0
    /\ spawned = <<>>
    /\ skipped = FALSE
    /\ rejected = 0

\* The clock moves on, by one tick or by the interval of a stored template.
Advance ==
    /\ advances < MaxAdvances
    /\ advances' = advances + 1
    /\ \E x \in {NextTick(now)} \cup
                { calculateNextRecurringDate(now, transactions[id].recurringInterval).ret :
                    id \in { i \in DOMAIN transactions : transactions[i].isRecurring } } :
          now' = x
    /\ UNCHANGED <<transactions, accounts, events, jobs, triggers, spawned, skipped, rejected>>
    /\ UNCHANGED <<budgetVars, thrVars, calcVars, reportVars>>

\* triggerRecurringTransactions: select the due templates, send one event each.
DueIgnoringStatus ==
    { id \in DOMAIN transactions :
        /\ transactions[id].isRecurring = TRUE
        /\ \/ transactions[id].lastProcessed = NULL
           \/ /\ transactions[id].nextRecurringDate # NULL
              /\ transactions[id].nextRecurringDate <= now }

DueTemplates ==
    { id \in DOMAIN transactions :
        /\ transactions[id].isRecurring = TRUE
        /\ transactions[id].status = "COMPLETED"
        /\ \/ transactions[id].lastProcessed = NULL
           \/ /\ transactions[id].nextRecurringDate # NULL
              /\ transactions[id].nextRecurringDate <= now }

TriggerRecurringTransactions ==
    /\ triggers < MaxTriggers
    /\ triggers' = triggers + 1
    /\ LET recurringTransactions == DueTemplates
           toSend == { [transactionId |-> id, userId |-> transactions[id].userId] :
                       id \in recurringTransactions }
       IN  events' = IF recurringTransactions # {} THEN events (+) SetToBag(toSend)
                     ELSE events
    /\ UNCHANGED <<now, transactions, accounts, jobs, advances, spawned, skipped, rejected>>
    /\ UNCHANGED <<budgetVars, thrVars, calcVars, reportVars>>

\* if (!event?.data?.transactionId || !event?.data?.userId)
NothingMissing(e) == FALSE

MissingEventData(e) == e.transactionId = NULL \/ e.userId = NULL

\* processRecurringTransaction, entry: the event is validated.
StartJob(j) ==
    /\ Idle(j)
    /\ \A k \in JobIds : k < j => ~Idle(k)     \* the slots are filled in order
    /\ \E e \in BagToSet(events) :
          /\ events' = events (-) SetToBag({e})
          /\ jobs' = [jobs EXCEPT ![j] =
                IF MissingEventData(e)
                THEN IdleJob    \* return { error: "Missing required event data" }
                ELSE [IdleJob EXCEPT !.pc = "fetch",
                                     !.transactionId = e.transactionId,
                                     !.userId = e.userId]]
          /\ rejected' = IF MissingEventData(e) THEN rejected + 1 ELSE rejected
    /\ UNCHANGED <<now, transactions, accounts, triggers, advances, spawned, skipped>>
    /\ UNCHANGED <<budgetVars, thrVars, calcVars, reportVars>>

\* step "process-transaction": findUnique by (id, userId), then the due check.
Fetch(j) ==
    /\ jobs[j].pc = "fetch"
    /\ LET id == jobs[j].transactionId
           found == id \in DOMAIN transactions
                    /\ transactions[id].userId = jobs[j].userId
           due == found /\ isTransactionDue(transactions[id], now)
       IN  /\ skipped' = (skipped \/ ~due)
           /\ jobs' = [jobs EXCEPT ![j] =
                IF ~due
                THEN IdleJob
                ELSE [@ EXCEPT !.pc = "create", !.found = TRUE,
                               !.transaction = transactions[id],
                               !.accountBalance =
                                    accounts[transactions[id].accountId]]]
    /\ UNCHANGED <<now, transactions, accounts, events, triggers, advances, spawned,
                   rejected>>
    /\ UNCHANGED <<budgetVars, thrVars, calcVars, reportVars>>

\* tx.transaction.create
TxCreate(j) ==
    /\ jobs[j].pc = "create"
    /\ LET t == jobs[j].transaction
           posting == [NoRow EXCEPT !.type = t.type, !.amount = t.amount,
                                    !.date = now, !.category = t.category,
                                    !.userId = t.userId, !.accountId = t.accountId,
                                    !.isRecurring = FALSE, !.status = "COMPLETED"]
       IN  jobs' = [jobs EXCEPT ![j].pc = "balance", ![j].tx.posting = <<posting>>]
    /\ UNCHANGED <<now, transactions, accounts, events, triggers, advances, spawned, skipped, rejected>>
    /\ UNCHANGED <<budgetVars, thrVars, calcVars, reportVars>>

\* tx.account.update: waits while another write unit holds the row.
TxAccountUpdate(j) ==
    /\ jobs[j].pc = "balance"
    /\ LET t == jobs[j].transaction
           balanceChange == IF t.type = "EXPENSE" THEN 0 - toNumber(t.amount)
                            ELSE toNumber(t.amount)
       IN  /\ \A k \in JobIds \ {j} : ~LocksAccount(k, t.accountId)
           /\ jobs' = [jobs EXCEPT ![j].pc = "update",
                          ![j].tx.balance =
                              << [id |-> t.accountId, change |-> balanceChange,
                                  value |-> Increment(accounts[t.accountId],
                                                      jobs[j].accountBalance,
                                                      balanceChange)] >>]
    /\ UNCHANGED <<now, transactions, accounts, events, triggers, advances, spawned, skipped, rejected>>
    /\ UNCHANGED <<budgetVars, thrVars, calcVars, reportVars>>

\* tx.transaction.update of the template, after which db.$transaction
\* resolves: the three writes become visible together.
TxTemplateUpdate(j) ==
    /\ jobs[j].pc = "update"
    /\ LET t == jobs[j].transaction
           id == jobs[j].transactionId
           tx == [jobs[j].tx EXCEPT !.template =
                     << [id |-> id, lastProcessed |-> now,
                         nextRecurringDate |->
                             calculateNextRecurringDate(now, t.recurringInterval).ret] >>]
       IN  /\ transactions' = AppliedTransactions(tx)
           /\ accounts' = AppliedAccounts(tx)
           /\ spawned' = Append(spawned,
                                [template |-> id,
                                 date |-> tx.posting[1].date,
                                 nextDue |-> tx.template[1].nextRecurringDate,
                                 account |-> t.accountId,
                                 change |-> tx.balance[1].change])
    /\ jobs' = [jobs EXCEPT ![j] = IdleJob]
    /\ UNCHANGED <<now, events, triggers, advances, skipped, rejected>>
    /\ UNCHANGED <<budgetVars, thrVars, calcVars, reportVars>>

\* A store call of the step throws (store unavailable, run aborted): the
\* write unit is rolled back and the platform retries the step or gives up.
StepFail(j) ==
    /\ jobs[j].pc \in {"fetch", "create", "balance", "update"}
    /\ transactions' = AppliedTransactions(Rollback(jobs[j].tx))
    /\ accounts' = AppliedAccounts(Rollback(jobs[j].tx))
    /\ jobs' = [jobs EXCEPT ![j] =
            IF @.attempts < MaxRetries
            THEN [IdleJob EXCEPT !.pc = "fetch",
                                 !.transactionId = jobs[j].transactionId,
                                 !.userId = jobs[j].userId,
                                 !.attempts = jobs[j].attempts + 1,
                                 !.failedAt = jobs[j].pc]
            ELSE IdleJob]
    /\ UNCHANGED <<now, events, triggers, advances, spawned, skipped, rejected>>
    /\ UNCHANGED <<budgetVars, thrVars, calcVars, reportVars>>

\* Sequential invocation: a run is started only when no other is in flight.
SeqStartJob(j) ==
    /\ \A k \in JobIds : Idle(k)
    /\ StartJob(j)

\* ======================================================================
\* calculateNextRecurringDate applied to one date
\* ======================================================================
CalcInit ==
    /\ dateArg \in ValidDates
    /\ intervalArg \in Intervals
    /\ given = dateArg
    /\ result = NULL

Calculate ==
    /\ result = NULL
    /\ LET r == calculateNextRecurringDate(dateArg, intervalArg)
       IN  /\ result' = r.ret
           /\ dateArg' = r.arg
    /\ UNCHANGED <<intervalArg, given>>
    /\ UNCHANGED <<procVars, budgetVars, thrVars, reportVars>>


\* ======================================================================
\* Budget alerts: checkBudgetAlerts
\* ======================================================================
MaxRuns == 2             \* evaluator executions in one behaviour

AlertThreshold == 80

BudgetIds == {1, 2}
RunIds == 1 .. MaxRuns

\* sendEmail (actions/send-email): resolves with success, resolves with a
\* failure, or throws.
SendOutcomes == {"success", "failure", "throw"}

IdleRun ==
    [pc |-> "idle", list |-> <<>>, index |-> 0, attempts |-> 0,
     emailResult |-> "none", totalExpenses |-> NULL]

\* An EXPENSE posting of the owner on the owner's account.
Expense(user, amount, date) ==
    [NoRow EXCEPT !.userId = user, !.accountId = user, !.type = "EXPENSE",
                  !.amount = amount, !.date = date, !.status = "COMPLETED"]

\* db.transaction.aggregate({ where: {userId, accountId, type: "EXPENSE",
\* date: {gte: startDate}}, _sum: {amount: true} }) over rows 1 .. n: the
\* store's decimal sum, 0 standing for the null sum of no row.
RECURSIVE ExpensesSince(_, _, _, _)
ExpensesSince(n, userId, accountId, startDate) ==
    IF n = 0 THEN 0
    ELSE (IF /\ transactions[n].userId = userId
             /\ transactions[n].accountId = accountId
             /\ transactions[n].type = "EXPENSE"
             /\ transactions[n].date >= startDate
          THEN transactions[n].amount ELSE 0)
         + ExpensesSince(n - 1, userId, accountId, startDate)

\* (totalExpenses / budgetAmount) * 100, rounded down to a whole percent: the
\* comparison with the whole threshold is the same.
percentageUsed(totalExpenses, budgetAmount) == (totalExpenses * 100) \div budgetAmount

SendWheneverOver(percentage, lastAlertSent) == percentage >= AlertThreshold

shouldSend(percentage, lastAlertSent) ==
    percentage >= AlertThreshold /\ lastAlertSent = NULL

\* const defaultAccount = budget.user.accounts[0]; if (!defaultAccount) continue
SkipNothing(budget) == TRUE

HasDefaultAccount(budget) == budget.account # NULL

\* for (const budget of budgets): from position index on, the budgets without
\* default account are passed over (continue); the loop stops at the first
\* budget to check, or ends.
RECURSIVE LoopFrom(_, _)
LoopFrom(run, index) ==
    IF index > Len(run.list)
    THEN [run EXCEPT !.pc = "done", !.index = index, !.attempts = 0]
    ELSE IF ~HasDefaultAccount(run.list[index])
         THEN LoopFrom(run, index + 1)
         ELSE [run EXCEPT !.pc = "check", !.index = index, !.attempts = 0]

BudgetInit ==
    /\ now \in StartTimes
    /\ \E e1 \in {7, 8} :
          transactions = << Expense(1, e1, now),
                            Expense(1, 5, MakeTime(FirstYear, 10, 15, 0)),
                            Expense(2, 9, now) >>
    /\ accounts = [a \in AccountIds |-> InitialBalance(a)]
    /\ events = EmptyBag
    /\ jobs = [j \in JobIds |-> IdleJob]
    /\ triggers = 0
    /\ advances = 0
    /\ spawned = <<>>
    /\ skipped = FALSE
    /\ rejected = 0
    /\ budgets = [b \in BudgetIds |-> [userId |-> b, amount |-> 10,
                                       lastAlertSent |-> NULL]]
    /\ defaultAccount \in { f \in [Users -> AccountIds \cup {NULL}] :
                              \A u \in Users : f[u] \in {u, NULL} }
    /\ runs = [r \in RunIds |-> IdleRun]
    /\ sends = [r \in RunIds |-> [b \in BudgetIds |-> 0]]
    /\ delivered = [r \in RunIds |-> [b \in BudgetIds |-> 0]]

\* step "fetch-budgets": findMany with each owner's default-flagged accounts.
FetchBudgets(r) ==
    /\ runs[r].pc = "idle"
    /\ \A q \in RunIds : q < r => runs[q].pc # "idle"    \* runs start in order
    /\ runs' = [runs EXCEPT ![r] =
            LoopFrom([IdleRun EXCEPT !.list =
                        [b \in BudgetIds |->
                            [id |-> b, userId |-> budgets[b].userId,
                             amount |-> budgets[b].amount,
                             lastAlertSent |-> budgets[b].lastAlertSent,
                             account |-> defaultAccount[budgets[b].userId]]]],
                     1)]
    /\ UNCHANGED <<budgets, defaultAccount, sends, delivered>>
    /\ UNCHANGED <<procVars, thrVars, calcVars, reportVars>>

\* step check-budget-<id> up to the decision.
Check(r) ==
    /\ runs[r].pc = "check"
    /\ LET budget == runs[r].list[runs[r].index]
           startDate == setDate(now, 1)
           totalExpenses == toNumber(ExpensesSince(Len(transactions), budget.userId,
                                                   budget.account, startDate))
           percentage == percentageUsed(totalExpenses, budget.amount)
           send == shouldSend(percentage, budget.lastAlertSent)
       IN  runs' = [runs EXCEPT ![r] =
                  IF send THEN [@ EXCEPT !.pc = "send", !.totalExpenses = totalExpenses]
                  ELSE LoopFrom([@ EXCEPT !.totalExpenses = totalExpenses],
                                @.index + 1)]
    /\ UNCHANGED <<budgets, defaultAccount, sends, delivered>>
    /\ UNCHANGED <<procVars, thrVars, calcVars, reportVars>>

\* A step that throws is run again by the platform, or the run is given up.
StepThrows(run) ==
    IF run.attempts < MaxRetries
    THEN [run EXCEPT !.pc = "check", !.attempts = @ + 1, !.emailResult = "none"]
    ELSE [run EXCEPT !.pc = "failed", !.emailResult = "none"]

\* await sendEmail(...): a throw is logged and thrown again, any resolved
\* value is logged and the step goes on.
SendEmail(r) ==
    /\ runs[r].pc = "send"
    /\ LET budget == runs[r].list[runs[r].index]
       IN  \E outcome \in SendOutcomes :
              /\ sends' = [sends EXCEPT ![r][budget.id] = @ + 1]
              /\ delivered' = [delivered EXCEPT ![r][budget.id] =
                                   IF outcome = "success" THEN @ + 1 ELSE @]
              /\ runs' = [runs EXCEPT ![r] =
                     IF outcome = "throw" THEN StepThrows(@)
                     ELSE [@ EXCEPT !.pc = "update", !.emailResult = outcome]]
    /\ UNCHANGED <<budgets, defaultAccount>>
    /\ UNCHANGED <<procVars, thrVars, calcVars, reportVars>>

\* db.budget.update({ data: { lastAlertSent: new Date() } }) succeeds.
UpdateBudget(r) ==
    /\ runs[r].pc = "update"
    /\ LET budget == runs[r].list[runs[r].index]
       IN  budgets' = [budgets EXCEPT ![budget.id].lastAlertSent = now]
    /\ runs' = [runs EXCEPT ![r] =
            LoopFrom([@ EXCEPT !.emailResult = "none"], @.index + 1)]
    /\ UNCHANGED <<defaultAccount, sends, delivered>>
    /\ UNCHANGED <<procVars, thrVars, calcVars, reportVars>>

\* db.budget.update throws: logged and thrown again.
UpdateBudgetThrows(r) ==
    /\ runs[r].pc = "update"
    /\ runs' = [runs EXCEPT ![r] = StepThrows(@)]
    /\ UNCHANGED <<budgets, defaultAccount, sends, delivered>>
    /\ UNCHANGED <<procVars, thrVars, calcVars, reportVars>>

\* Sequential runs: a run starts only when no other run is under way.
SeqFetchBudgets(r) ==
    /\ \A q \in RunIds : runs[q].pc \in {"idle", "done", "failed"}
    /\ FetchBudgets(r)


\* ======================================================================
\* Monthly reports: getMonthlyStats, generateFinancialInsights,
\* generateMonthlyReports
\* ======================================================================
\* const startDate = new Date(month.getFullYear(), month.getMonth(), 1)
StatsStartDate(month) == NewDateOf(getFullYear(month), getMonth(month), 1)

\* const endDate = new Date(month.getFullYear(), month.getMonth() + 1, 0):
\* day 0 of the following month is the last day of this one, at 00:00.
StatsEndDate(month) ==
    NewDateOf(getFullYear(month), getMonth(month) + 1, 0)

\* db.transaction.findMany({ where: { userId, date: { gte, lte } } }): the ids
\* of the rows that match.
FoundForStats(userId, month) ==
    { i \in DOMAIN transactions :
        /\ transactions[i].userId = userId
        /\ transactions[i].date >= StatsStartDate(month)
        /\ transactions[i].date <= StatsEndDate(month) }

\* The query states no order: the rows come back in any.
Orders(S) ==
    { q \in [1 .. Cardinality(S) -> S] :
        \A i, k \in 1 .. Cardinality(S) : i # k => q[i] # q[k] }

NoStats ==
    [totalExpenses |-> 0, totalIncome |-> 0, byCategory |-> [c \in {} |-> 0],
     transactionCount |-> 0]

\* The value of monthlyStats before the call: no count of rows yet.
NotCalled == [NoStats EXCEPT !.transactionCount = NULL]

\* The reducer of getMonthlyStats applied to one row.
Accumulate(stats, t) ==
    LET amount == toNumber(t.amount)
    IN  IF t.type = "EXPENSE"
        THEN [stats EXCEPT
                !.totalExpenses = NumberAdd(@, amount),
                !.byCategory =
                    [c \in DOMAIN @ \cup {t.category} |->
                        IF c = t.category
                        THEN NumberAdd(IF c \in DOMAIN @ THEN @[c] ELSE 0, amount)
                        ELSE @[c]]]
        ELSE [stats EXCEPT !.totalIncome = NumberAdd(@, amount)]

\* transactions.reduce(..., { ..., transactionCount: transactions.length })
\* over rows[k], rows[k + 1], ...
RECURSIVE ReduceFrom(_, _, _)
ReduceFrom(rows, k, stats) ==
    IF k > Len(rows) THEN stats
    ELSE ReduceFrom(rows, k + 1, Accumulate(stats, transactions[rows[k]]))

StatsOf(rows) ==
    ReduceFrom(rows, 1, [NoStats EXCEPT !.transactionCount = Len(rows)])

\* The (rows, stats) pairs a call of getMonthlyStats can end with.
getMonthlyStats(userId, month) ==
    { [rows |-> q, stats |-> StatsOf(q)] : q \in Orders(FoundForStats(userId, month)) }

\* generateFinancialInsights: what the text-generation call does.
AdapterReplies == {"list", "unparsable", "throws"}

GeneratedInsights == <<"insight 1", "insight 2", "insight 3">>

FallbackInsights ==
    << "Your highest expense category this month might need attention.",
       "Consider setting up a budget for better financial management.",
       "Track your recurring expenses to identify potential savings." >>

Thrown == <<"thrown">>

PropagatingInsights(reply) ==
    IF reply = "list" THEN GeneratedInsights ELSE Thrown

generateFinancialInsights(reply) ==
    IF reply = "list" THEN GeneratedInsights     \* return JSON.parse(cleanedText)
    ELSE FallbackInsights                        \* catch (error) { return [...] }

\* db.user.findMany(): the owners, in the order returned.
UserList == <<1, 2>>

IdleReport ==
    [pc |-> "idle", index |-> 0, attempts |-> 0, stats |-> NoStats,
     reply |-> "none", insights |-> <<>>]

ReportRunIdle ==
    /\ report = IdleReport
    /\ reportsSent = [u \in Users |-> 0]
    /\ insightsSent = [u \in Users |-> <<>>]

\* No call of getMonthlyStats on its own.
StatsIdle ==
    /\ userArg = NULL
    /\ monthArg = NULL
    /\ fetchedRows = <<>>
    /\ monthlyStats = NotCalled

ReportIdle == ReportRunIdle /\ StatsIdle

\* One call getMonthlyStats(userArg, monthArg).
CallGetMonthlyStats ==
    /\ monthlyStats = NotCalled
    /\ monthArg # NULL
    /\ \E got \in getMonthlyStats(userArg, monthArg) :
          /\ fetchedRows' = got.rows
          /\ monthlyStats' = got.stats
    /\ UNCHANGED <<report, reportsSent, insightsSent, userArg, monthArg>>
    /\ UNCHANGED <<procVars, budgetVars, thrVars, calcVars>>

\* for (const user of users): the step of the owner at position index, or the
\* end of the run.
ReportAt(run, index) ==
    IF index > Len(UserList)
    THEN [IdleReport EXCEPT !.pc = "done", !.index = index]
    ELSE [IdleReport EXCEPT !.pc = "stats", !.index = index]

\* A step that throws is run again by the platform, or the run is given up:
\* nothing in the loop catches what step.run throws.
ReportStepThrows(run) ==
    IF run.attempts < MaxRetries
    THEN [IdleReport EXCEPT !.pc = "stats", !.index = run.index,
                            !.attempts = run.attempts + 1]
    ELSE [IdleReport EXCEPT !.pc = "failed", !.index = run.index,
                            !.attempts = run.attempts]

\* step "fetch-users"
FetchUsers ==
    /\ report.pc = "idle"
    /\ report' = ReportAt(report, 1)
    /\ UNCHANGED <<reportsSent, insightsSent, userArg, monthArg, fetchedRows, monthlyStats>>
    /\ UNCHANGED <<procVars, budgetVars, thrVars, calcVars>>

\* step generate-report-<id>: lastMonth, then getMonthlyStats(user.id, lastMonth)
ReportStats ==
    /\ report.pc = "stats"
    /\ LET user == UserList[report.index]
           lastMonth == setMonth(now, getMonth(now) - 1)
       IN  \E got \in getMonthlyStats(user, lastMonth) :
              report' = [report EXCEPT !.pc = "insights", !.stats = got.stats]
    /\ UNCHANGED <<reportsSent, insightsSent, userArg, monthArg, fetchedRows, monthlyStats>>
    /\ UNCHANGED <<procVars, budgetVars, thrVars, calcVars>>

\* db.transaction.findMany of getMonthlyStats throws.
ReportStatsThrows ==
    /\ report.pc = "stats"
    /\ report' = ReportStepThrows(report)
    /\ UNCHANGED <<reportsSent, insightsSent, userArg, monthArg, fetchedRows, monthlyStats>>
    /\ UNCHANGED <<procVars, budgetVars, thrVars, calcVars>>

\* const insights = await generateFinancialInsights(stats, monthName)
GenerateInsights ==
    /\ report.pc = "insights"
    /\ \E reply \in AdapterReplies :
          LET insights == generateFinancialInsights(reply)
          IN  report' = IF insights = Thrown
                        THEN ReportStepThrows(report)
                        ELSE [report EXCEPT !.pc = "mail", !.reply = reply,
                                            !.insights = insights]
    /\ UNCHANGED <<reportsSent, insightsSent, userArg, monthArg, fetchedRows, monthlyStats>>
    /\ UNCHANGED <<procVars, budgetVars, thrVars, calcVars>>

\* await sendEmail({ ..., data: { stats, month, insights } }): the resolved
\* value is dropped, a throw leaves the step.
SendReport ==
    /\ report.pc = "mail"
    /\ LET user == UserList[report.index]
       IN  /\ reportsSent' = [reportsSent EXCEPT ![user] = @ + 1]
           /\ insightsSent' = [insightsSent EXCEPT ![user] = report.insights]
           /\ \E outcome \in SendOutcomes :
                 report' = IF outcome = "throw" THEN ReportStepThrows(report)
                           ELSE ReportAt(report, report.index + 1)
    /\ UNCHANGED <<userArg, monthArg, fetchedRows, monthlyStats>>
    /\ UNCHANGED <<procVars, budgetVars, thrVars, calcVars>>


\* ======================================================================
\* The throttle of processRecurringTransaction
\*   throttle: { limit: 10, period: "1m", key: "event.data.userId" }
\* ======================================================================
ThrottleLimit == 10

PeriodTicks == 2         \* clock ticks that make up the period of one minute
MaxBatches == 1          \* batches of events sent in one behaviour
BigBatch == 12           \* size of a batch that exceeds the limit

BatchSizes == {0, 1, BigBatch}

\* key: "event.data.userId"
SharedKey(userId) == 0

ThrottleKey(userId) == userId

ThrottleKeys == Users \cup {0}

RECURSIVE SumSeq(_)
SumSeq(q) == IF q = <<>> THEN 0 ELSE Head(q) + SumSeq(Tail(q))

NoStarts == [i \in 1 .. PeriodTicks |-> 0]

\* throttle (not rateLimit): the events over the limit wait in the queue.
RateLimited(n, room) == IF n <= room THEN n ELSE room

Throttled(n, room) == n

\* Starts the limit still allows for the key of this owner in the period
\* that ends now.
Room(userId) == ThrottleLimit - SumSeq(thrRecent[ThrottleKey(userId)])

Admits(userId) == Room(userId) > 0

ThrottleInit ==
    /\ thrEmitted = [u \in Users |-> 0]
    /\ thrQueued = [u \in Users |-> 0]
    /\ thrStarted = [u \in Users |-> 0]
    /\ thrRecent = [k \in ThrottleKeys |-> NoStarts]
    /\ thrStartsOf = [u \in Users |-> NoStarts]
    /\ thrBatches = 0

\* inngest.send(events): one event per due template, any number per owner.
SendBatch ==
    /\ thrBatches < MaxBatches
    /\ thrBatches' = thrBatches + 1
    /\ \E n \in [Users -> BatchSizes] :
          /\ thrEmitted' = [u \in Users |-> thrEmitted[u] + n[u]]
          /\ thrQueued' = [u \in Users |->
                              thrQueued[u] + Throttled(n[u], Room(u))]
    /\ UNCHANGED <<thrStarted, thrRecent, thrStartsOf>>
    /\ UNCHANGED <<procVars, budgetVars, calcVars, reportVars>>

\* The platform starts one waiting job of the owner.
StartThrottled(u) ==
    /\ thrQueued[u] > 0
    /\ Admits(u)
    /\ thrQueued' = [thrQueued EXCEPT ![u] = @ - 1]
    /\ thrStarted' = [thrStarted EXCEPT ![u] = @ + 1]
    /\ thrRecent' = [thrRecent EXCEPT ![ThrottleKey(u)][1] = @ + 1]
    /\ thrStartsOf' = [thrStartsOf EXCEPT ![u][1] = @ + 1]
    /\ UNCHANGED <<thrEmitted, thrBatches>>
    /\ UNCHANGED <<procVars, budgetVars, calcVars, reportVars>>

\* One tick passes: the oldest tick leaves the period.
Shift(q) == <<0>> \o SubSeq(q, 1, PeriodTicks - 1)

ThrottleTick ==
    /\ thrRecent' = [k \in ThrottleKeys |-> Shift(thrRecent[k])]
    /\ thrStartsOf' = [u \in Users |-> Shift(thrStartsOf[u])]
    /\ UNCHANGED <<thrEmitted, thrQueued, thrStarted, thrBatches>>
    /\ UNCHANGED <<procVars, budgetVars, calcVars, reportVars>>

\* ======================================================================
\* Specifications
\* ======================================================================
ProcIdle ==
    /\ now = Epoch
    /\ transactions = <<>>
    /\ accounts = [a \in AccountIds |-> InitialBalance(a)]
    /\ events = EmptyBag
    /\ jobs = [j \in JobIds |-> IdleJob]
    /\ triggers = 0
    /\ advances = 0
    /\ spawned = <<>>
    /\ skipped = FALSE
    /\ rejected = 0

BudgetIdle ==
    /\ budgets = [b \in BudgetIds |-> [userId |-> b, amount |-> 10,
                                       lastAlertSent |-> NULL]]
    /\ defaultAccount = [u \in Users |-> NULL]
    /\ runs = [r \in RunIds |-> IdleRun]
    /\ sends = [r \in RunIds |-> [b \in BudgetIds |-> 0]]
    /\ delivered = [r \in RunIds |-> [b \in BudgetIds |-> 0]]

CalcIdle ==
    /\ dateArg = NULL
    /\ intervalArg = "NONE"
    /\ given = NULL
    /\ result = NULL

\* The recurring path, with concurrent processor executions.
Init ==
    ProcInit({MakeTime(FirstYear + 1, 0, 31, 0)}, {"MONTHLY"}) /\ BudgetIdle /\ ThrottleInit /\ CalcIdle /\ ReportIdle

Next ==
    \/ Advance
    \/ TriggerRecurringTransactions
    \/ \E j \in JobIds : StartJob(j)
    \/ \E j \in JobIds : Fetch(j)
    \/ \E j \in JobIds : TxCreate(j)
    \/ \E j \in JobIds : TxAccountUpdate(j)
    \/ \E j \in JobIds : TxTemplateUpdate(j)
    \/ \E j \in JobIds : StepFail(j)

Spec == Init /\ [][Next]_vars

\* The recurring path, the processor invoked one run after another.
SeqNext ==
    \/ Advance
    \/ TriggerRecurringTransactions
    \/ \E j \in JobIds : SeqStartJob(j)
    \/ \E j \in JobIds : Fetch(j)
    \/ \E j \in JobIds : TxCreate(j)
    \/ \E j \in JobIds : TxAccountUpdate(j)
    \/ \E j \in JobIds : TxTemplateUpdate(j)
    \/ \E j \in JobIds : StepFail(j)

SeqInit ==
    ProcInit(StartTimes, Intervals) /\ BudgetIdle /\ ThrottleInit /\ CalcIdle /\ ReportIdle

SpecSeq == SeqInit /\ [][SeqNext]_vars

\* The alert path, with overlapping evaluator runs.
BudgetSpecInit ==
    BudgetInit /\ ThrottleInit /\ CalcIdle /\ ReportIdle

BudgetNext ==
    \/ Advance
    \/ \E r \in RunIds : FetchBudgets(r)
    \/ \E r \in RunIds : Check(r)
    \/ \E r \in RunIds : SendEmail(r)
    \/ \E r \in RunIds : UpdateBudget(r)
    \/ \E r \in RunIds : UpdateBudgetThrows(r)

SpecBudget == BudgetSpecInit /\ [][BudgetNext]_vars

\* The alert path over postings around the start of the month: of the first
\* day, of the day before, of later days, of the other account, of type INCOME.
WindowMonth == MakeTime(FirstYear + 1, 0, 1, 0)

WindowInit ==
    /\ now \in {WindowMonth, NextTick(WindowMonth), setDate(NextTick(WindowMonth), 15)}
    /\ \E d1 \in {WindowMonth, NextTick(WindowMonth), setDate(WindowMonth, 10),
                   setDate(WindowMonth, 20)} :
          transactions =
              << Expense(1, 4, d1),
                 [Expense(1, 3, setDate(WindowMonth, 10)) EXCEPT !.type = "INCOME"],
                 [Expense(1, 5, setDate(WindowMonth, 10)) EXCEPT !.accountId = 2],
                 Expense(1, 2, MakeDay(FirstYear + 1, 0, 0, TicksPerDay - 1)),
                 Expense(2, 9, WindowMonth) >>
    /\ accounts = [a \in AccountIds |-> InitialBalance(a)]
    /\ events = EmptyBag
    /\ jobs = [j \in JobIds |-> IdleJob]
    /\ triggers = 0
    /\ advances = 0
    /\ spawned = <<>>
    /\ skipped = FALSE
    /\ rejected = 0
    /\ budgets = [b \in BudgetIds |-> [userId |-> b, amount |-> 10,
                                       lastAlertSent |-> NULL]]
    /\ defaultAccount = [u \in Users |-> u]
    /\ runs = [r \in RunIds |-> IdleRun]
    /\ sends = [r \in RunIds |-> [b \in BudgetIds |-> 0]]
    /\ delivered = [r \in RunIds |-> [b \in BudgetIds |-> 0]]

WindowSpecInit == WindowInit /\ ThrottleInit /\ CalcIdle /\ ReportIdle

SpecWindow == WindowSpecInit /\ [][BudgetNext]_vars

\* The alert path, one evaluator run after another.
BudgetSeqNext ==
    \/ Advance
    \/ \E r \in RunIds : SeqFetchBudgets(r)
    \/ \E r \in RunIds : Check(r)
    \/ \E r \in RunIds : SendEmail(r)
    \/ \E r \in RunIds : UpdateBudget(r)
    \/ \E r \in RunIds : UpdateBudgetThrows(r)

SpecBudgetSeq == BudgetSpecInit /\ [][BudgetSeqNext]_vars

\* The selector alone, over stored rows of every kind.
PastDate == MakeTime(FirstYear, 5, 10, 0)
FutureDate == MakeTime(FirstYear + YearSpan, 11, 1, 0)

Statuses == {"COMPLETED", "PENDING", "FAILED"}

StoredRows(user, today) ==
    { [Template(user, user, "EXPENSE", 3, "MONTHLY", PastDate) EXCEPT
          !.isRecurring = r, !.status = s, !.lastProcessed = lp,
          !.nextRecurringDate = nd] :
        r \in BOOLEAN, s \in Statuses, lp \in {NULL, PastDate},
        nd \in {NULL, PastDate, today, FutureDate} }

SelectInit ==
    /\ now \in StartTimes
    /\ \E r1 \in StoredRows(1, now), r2 \in StoredRows(2, now) :
          transactions = <<r1, r2>>
    /\ accounts = [a \in AccountIds |-> InitialBalance(a)]
    /\ events = EmptyBag
    /\ jobs = [j \in JobIds |-> IdleJob]
    /\ triggers = 0
    /\ advances = 0
    /\ spawned = <<>>
    /\ skipped = FALSE
    /\ rejected = 0

SelectSpecInit ==
    SelectInit /\ BudgetIdle /\ ThrottleInit /\ CalcIdle /\ ReportIdle

SelectNext ==
    \/ Advance
    \/ TriggerRecurringTransactions

SpecSelect == SelectSpecInit /\ [][SelectNext]_vars

\* The processor alone, one run after another, fed events of every kind
\* about stored rows of every kind.  Row 2 is a plain posting of owner 2; a
\* row 3, when there is one, is a posting the processor made.
SentEvents ==
    { [transactionId |-> 1, userId |-> 1], [transactionId |-> 2, userId |-> 2],
      [transactionId |-> 3, userId |-> 1], [transactionId |-> NULL, userId |-> 1],
      [transactionId |-> 1, userId |-> NULL] }

EventRows(today) ==
    { [Template(1, 1, "EXPENSE", 3, i, PastDate) EXCEPT
          !.isRecurring = r, !.status = s, !.lastProcessed = d[1],
          !.nextRecurringDate = d[2]] :
        r \in BOOLEAN, s \in {"COMPLETED", "PENDING"}, i \in {"MONTHLY", "NONE"},
        d \in { <<NULL, today>>, <<PastDate, NULL>>, <<PastDate, FutureDate>> } }

EventInit ==
    /\ now = MakeTime(FirstYear + 1, 0, 31, 0)
    /\ \E r1 \in EventRows(now) :
          transactions = << r1, [Expense(2, 4, PastDate) EXCEPT !.type = "INCOME"] >>
    /\ accounts = [a \in AccountIds |-> InitialBalance(a)]
    /\ \E sent \in SUBSET SentEvents : events = SetToBag(sent)
    /\ jobs = [j \in JobIds |-> IdleJob]
    /\ triggers = 0
    /\ advances = 0
    /\ spawned = <<>>
    /\ skipped = FALSE
    /\ rejected = 0

EventSpecInit ==
    EventInit /\ BudgetIdle /\ ThrottleInit /\ CalcIdle /\ ReportIdle

EventNext ==
    \/ Advance
    \/ \E j \in JobIds : SeqStartJob(j)
    \/ \E j \in JobIds : Fetch(j)
    \/ \E j \in JobIds : TxCreate(j)
    \/ \E j \in JobIds : TxAccountUpdate(j)
    \/ \E j \in JobIds : TxTemplateUpdate(j)

SpecEvents == EventSpecInit /\ [][EventNext]_vars

\* The monthly reports: one run over the owners.
ReportInit ==
    /\ now \in {MakeTime(FirstYear + 1, 0, 1, 0), MakeTime(FirstYear + 1, 2, 1, 1)}
    /\ \E a1 \in {3, 9}, t2 \in {"EXPENSE", "INCOME"}, u3 \in Users :
          transactions =
              << Expense(1, a1, setDate(setMonth(now, getMonth(now) - 1), 5)),
                 [Expense(1, 14, setDate(setMonth(now, getMonth(now) - 1), 9))
                     EXCEPT !.type = t2],
                 Expense(u3, 11, setDate(setMonth(now, getMonth(now) - 1), 20)) >>
    /\ accounts = [a \in AccountIds |-> InitialBalance(a)]
    /\ events = EmptyBag
    /\ jobs = [j \in JobIds |-> IdleJob]
    /\ triggers = 0
    /\ advances = 0
    /\ spawned = <<>>
    /\ skipped = FALSE
    /\ rejected = 0

ReportSpecInit == ReportInit /\ BudgetIdle /\ ThrottleInit /\ CalcIdle /\ ReportIdle

ReportNext ==
    \/ FetchUsers
    \/ ReportStats
    \/ ReportStatsThrows
    \/ GenerateInsights
    \/ SendReport

SpecReport == ReportSpecInit /\ [][ReportNext]_vars

\* getMonthlyStats applied to an owner and a month, over postings of both
\* owners dated around the ends of the month.
StatsMonths == {MakeTime(FirstYear, 11, 10, 0), MakeTime(FirstYear + 1, 1, 15, 1)}

Categories == {"food", "rent"}

\* The dates around the month of date month.
EdgeDates(month) ==
    LET y == getFullYear(month)
        m == getMonth(month)
    IN  { MakeDay(y, m, 0, TicksPerDay - 1), MakeDay(y, m, 1, 0),
          MakeDay(y, m, 1, TicksPerDay - 1), MakeDay(y, m, DaysInMonth(y, m), 0),
          MakeDay(y, m, DaysInMonth(y, m), TicksPerDay - 1),
          MakeDay(y, m, DaysInMonth(y, m) + 1, 0) }

Posting(user, type, category, amount, date) ==
    [Expense(user, amount, date) EXCEPT !.type = type, !.category = category]

StatsInit ==
    /\ now = MakeTime(FirstYear + 1, 2, 1, 0)
    /\ monthArg \in StatsMonths
    /\ userArg \in Users
    /\ \E d1 \in EdgeDates(monthArg), t2 \in {"EXPENSE", "INCOME"},
          c2 \in Categories, d2 \in {setDate(monthArg, 9), setDate(monthArg, 1)},
          u3 \in Users, a3 \in {3, 11} :
          transactions =
              << Posting(1, "EXPENSE", "food", 9, d1),
                 Posting(1, t2, c2, 14, d2),
                 Posting(u3, "EXPENSE", "food", a3, setDate(monthArg, 20)) >>
    /\ accounts = [a \in AccountIds |-> InitialBalance(a)]
    /\ events = EmptyBag
    /\ jobs = [j \in JobIds |-> IdleJob]
    /\ triggers = 0
    /\ advances = 0
    /\ spawned = <<>>
    /\ skipped = FALSE
    /\ rejected = 0
    /\ fetchedRows = <<>>
    /\ monthlyStats = NotCalled

StatsSpecInit ==
    StatsInit /\ BudgetIdle /\ ThrottleInit /\ CalcIdle /\ ReportRunIdle

StatsNext == CallGetMonthlyStats

SpecStats == StatsSpecInit /\ [][StatsNext]_vars

\* The throttle; time passes and the platform starts every job it may start.
ThrottleSpecInit ==
    ProcIdle /\ BudgetIdle /\ ThrottleInit /\ CalcIdle /\ ReportIdle

ThrottleNext ==
    \/ SendBatch
    \/ ThrottleTick
    \/ \E u \in Users : StartThrottled(u)

SpecThrottle ==
    /\ ThrottleSpecInit
    /\ [][ThrottleNext]_vars
    /\ WF_vars(ThrottleTick)
    /\ \A u \in Users : WF_vars(StartThrottled(u))

\* One call of calculateNextRecurringDate on every date of the range.
CalcSpecInit ==
    ProcIdle /\ BudgetIdle /\ ThrottleInit /\ CalcInit /\ ReportIdle

CalcNext == Calculate

SpecCalc == CalcSpecInit /\ [][CalcNext]_vars

\* ======================================================================
\* Properties
\* ======================================================================
\* Signed sum of the balance adjustments of the first n committed write
\* units on account a.
RECURSIVE SpawnedChange(_, _)
SpawnedChange(n, a) ==
    IF n = 0 THEN 0
    ELSE (IF spawned[n].account = a THEN spawned[n].change ELSE 0)
         + SpawnedChange(n - 1, a)

\* The rows of table Transaction the processor created.
ProcessorPostings == { i \in DOMAIN transactions : ~transactions[i].isRecurring }

\* Signed sum (+INCOME, -EXPENSE) of the processor's postings among rows
\* 1 .. n on account a.
RECURSIVE PostedSum(_, _)
PostedSum(n, a) ==
    IF n = 0 THEN 0
    ELSE (IF ~transactions[n].isRecurring /\ transactions[n].accountId = a
          THEN (IF transactions[n].type = "EXPENSE" THEN 0 - transactions[n].amount
                ELSE transactions[n].amount)
          ELSE 0)
         + PostedSum(n - 1, a)

\* percentageUsed of budget b as the store and the clock stand.
LivePercentage(b) ==
    percentageUsed(toNumber(ExpensesSince(Len(transactions), budgets[b].userId,
                                          defaultAccount[budgets[b].userId],
                                          setDate(now, 1))),
                   budgets[b].amount)

\* ---------------------------------------------------------------- C1
\* C1: when the processor is invoked one run after another (retries of a
\* failed step included), a template gets a further posting only once the
\* clock has reached the next due date its previous posting stored; until
\* then every further run ends at the re-check.  Each posting comes with
\* exactly one balance adjustment: the rows the processor created and the
\* balances agree with the committed write units.
SequentialIdempotence ==
    /\ \A i, k \in DOMAIN spawned :
          (i < k /\ spawned[i].template = spawned[k].template)
              => spawned[i].nextDue <= spawned[k].date
    /\ Cardinality(ProcessorPostings) = Len(spawned)
    /\ \A a \in AccountIds :
          accounts[a] = InitialBalance(a) + PostedSum(Len(transactions), a)

\* One template was posted once and, the clock not having moved, a further
\* run for it ended at the re-check: the other template was never processed
\* and so is still due.
SecondRunIsNoOp ==
    /\ advances = 0
    /\ skipped
    /\ Len(spawned) = 1
    /\ Len(transactions) = 3
    /\ accounts[spawned[1].account] =
           InitialBalance(spawned[1].account) + spawned[1].change

\* ---------------------------------------------------------------- C2
\* C2: with processor executions running concurrently, two postings of one
\* template are never made in the same due cycle: the later one is dated at
\* or after the next due date the earlier one stored.
AtMostOncePerDueCycle ==
    \A i \in DOMAIN spawned : \A k \in DOMAIN spawned :
        (i < k /\ spawned[k].template = spawned[i].template)
            => spawned[k].date >= spawned[i].nextDue

\* ---------------------------------------------------------------- C3
\* C3: the posting, the balance adjustment and the template update are
\* visible together or not at all.  In every state each balance is its
\* initial value plus the signed sum of the processor's postings on it, the
\* processor's postings are exactly those of the committed write units, and
\* a template carries lastProcessed and a moved nextRecurringDate exactly
\* when a write unit for it committed; a template no unit committed for is
\* still due.
WriteUnitAllOrNothing ==
    /\ \A a \in AccountIds :
          accounts[a] = InitialBalance(a) + PostedSum(Len(transactions), a)
    /\ Cardinality(ProcessorPostings) = Len(spawned)
    /\ \A id \in DOMAIN transactions :
          transactions[id].isRecurring =>
              /\ (transactions[id].lastProcessed # NULL)
                     <=> (\E i \in DOMAIN spawned : spawned[i].template = id)
              /\ (\A i \in DOMAIN spawned : spawned[i].template # id)
                     => /\ isTransactionDue(transactions[id], now)
                        /\ transactions[id].nextRecurringDate =
                               calculateNextRecurringDate(transactions[id].date,
                                   transactions[id].recurringInterval).ret
              /\ \A i \in DOMAIN spawned :
                    (/\ spawned[i].template = id
                     /\ \A k \in DOMAIN spawned :
                           spawned[k].template = id => k <= i)
                        => transactions[id].nextRecurringDate = spawned[i].nextDue

\* A write unit threw at its third write, after the posting and the balance
\* adjustment had been made inside it, and the step is about to run again:
\* there is no posting, the balances are the initial ones, the template is
\* still due.
FailedUnitLeftNothing ==
    \E j \in JobIds :
        /\ jobs[j].pc = "fetch"
        /\ jobs[j].failedAt = "update"
        /\ spawned = <<>>
        /\ ProcessorPostings = {}
        /\ \A a \in AccountIds : accounts[a] = InitialBalance(a)
        /\ isTransactionDue(transactions[jobs[j].transactionId], now)

\* ---------------------------------------------------------------- C4
\* C4: no balance adjustment is lost.  Every balance is its initial value
\* plus the adjustments of all write units committed on the account, in
\* every interleaving of the executions.
NoLostBalanceUpdate ==
    \A a \in AccountIds :
        accounts[a] - InitialBalance(a) = SpawnedChange(Len(spawned), a)

\* An execution has made its balance adjustment inside its write unit after
\* a unit for another template on the same account committed: the balance it
\* read at its fetch is out of date, the adjustment builds on the current one.
IncrementOverStaleSnapshot ==
    \E j \in JobIds :
        /\ jobs[j].pc = "update"
        /\ LET a == jobs[j].tx.balance[1].id
           IN  /\ jobs[j].accountBalance # accounts[a]
               /\ jobs[j].accountBalance = InitialBalance(a)
               /\ \E i \in DOMAIN spawned :
                     /\ spawned[i].account = a
                     /\ spawned[i].template # jobs[j].transactionId
               /\ jobs[j].tx.balance[1].value =
                      accounts[a] + jobs[j].tx.balance[1].change

\* ---------------------------------------------------------------- C5
\* C5 as stated: in one run a budget's notification is delivered at most
\* once, and once the run is through with the budget after a delivery,
\* lastAlertSent is set.
OneShotEveryRun ==
    \A r \in RunIds : \A b \in BudgetIds :
        /\ delivered[r][b] <= 1
        /\ (/\ delivered[r][b] >= 1
            /\ \/ runs[r].pc \in {"done", "failed"}
               \/ runs[r].index > b)
               => budgets[b].lastAlertSent # NULL

\* C5, amended: with runs one after another, the check of a budget goes on to
\* the send exactly when the percentage used is at least the threshold and
\* lastAlertSent is unset; the notification adapter is called for a budget
\* only while its lastAlertSent is unset, once per attempt of the step; the
\* write that follows the send, when it succeeds, sets lastAlertSent; and a
\* set lastAlertSent is never unset again.
OneShotUnlessStepThrows ==
    [][ \A r \in RunIds : \A b \in BudgetIds :
          /\ (runs[r].pc = "check" /\ runs[r].index = b /\ runs'[r] # runs[r])
                => ((runs'[r].pc = "send")
                       <=> (/\ LivePercentage(b) >= AlertThreshold
                            /\ budgets[b].lastAlertSent = NULL))
          /\ (sends'[r][b] # sends[r][b])
                => /\ budgets[b].lastAlertSent = NULL
                   /\ runs[r].pc = "send"
                   /\ sends'[r][b] = sends[r][b] + 1
          /\ (runs[r].pc = "update" /\ runs[r].index = b /\ runs'[r].index > b)
                => budgets'[b].lastAlertSent # NULL
          /\ (budgets[b].lastAlertSent # NULL)
                => budgets'[b].lastAlertSent # NULL
      ]_vars

\* A later run finished without a send for a budget that is still over the
\* threshold, because an earlier run's send had set lastAlertSent.
LaterRunSendsNothing ==
    \E b \in BudgetIds :
        /\ runs[1].pc = "done"
        /\ runs[2].pc = "done"
        /\ sends[1][b] = 1
        /\ delivered[1][b] = 1
        /\ sends[2][b] = 0
        /\ budgets[b].lastAlertSent # NULL
        /\ LivePercentage(b) >= AlertThreshold

\* ---------------------------------------------------------------- C6
\* C6: lastAlertSent of a budget is set only once a send of its notification
\* has succeeded; after sends that did not succeed it is still unset.
NotifyThenCommit ==
    \A b \in BudgetIds :
        (budgets[b].lastAlertSent # NULL)
            => \E r \in RunIds : delivered[r][b] >= 1

\* ---------------------------------------------------------------- C7
\* C7: for a budget whose owner has no default-flagged account no run calls
\* the notification adapter, no run enters the budget's step (so none can
\* fail in it), lastAlertSent stays unset, and the run goes on to the
\* budgets after it.
NoDefaultAccountIsSkipped ==
    \A b \in BudgetIds :
        (defaultAccount[budgets[b].userId] = NULL)
            => /\ budgets[b].lastAlertSent = NULL
               /\ \A r \in RunIds :
                     /\ sends[r][b] = 0
                     /\ ~(/\ runs[r].pc \in {"check", "send", "update", "failed"}
                          /\ runs[r].index = b)

\* A run passed over the first budget, whose owner has no default account,
\* and has sent the notification of the second.
SkippedThenWentOn ==
    /\ defaultAccount[budgets[1].userId] = NULL
    /\ \E r \in RunIds :
          /\ runs[r].index = 2
          /\ runs[r].pc = "update"
          /\ sends[r][1] = 0
          /\ sends[r][2] = 1

\* ---------------------------------------------------------------- C8
\* C8: within the period that ends at any instant at most ThrottleLimit jobs
\* of one owner were started, and an owner with waiting events who has not
\* used up that allowance is admitted whatever the other owners started.
ThrottleBoundPerOwner ==
    \A o \in Users :
        /\ SumSeq(thrStartsOf[o]) <= ThrottleLimit
        /\ (thrQueued[o] > 0 /\ SumSeq(thrStartsOf[o]) < ThrottleLimit)
               => Admits(o)

\* Both owners have used up their allowance in the same period and both
\* still have events waiting.
BothOwnersAtTheLimit ==
    \A o \in Users :
        /\ SumSeq(thrStartsOf[o]) = ThrottleLimit
        /\ thrQueued[o] > 0

\* ---------------------------------------------------------------- C9
\* C9: every emitted event is waiting or has been started as one job, and
\* the events that wait are all started in the end.
DeferredNotDropped ==
    /\ [](\A u \in Users : thrEmitted[u] = thrQueued[u] + thrStarted[u])
    /\ \A u \in Users : (thrQueued[u] > 0) ~> (thrQueued[u] = 0)

\* A batch larger than the limit has been started to the last event.
BigBatchAllStarted ==
    \E u \in Users :
        /\ thrEmitted[u] = BigBatch
        /\ thrStarted[u] = BigBatch
        /\ thrQueued[u] = 0

\* --------------------------------------------------------------- C10
\* C10: for each of the four intervals and every date the returned date is
\* strictly later than the date given, and the caller's Date still holds the
\* time value it held before the call.
NextDateLaterInputKept ==
    (result # NULL) => (result > given /\ dateArg = given)

\* January 31st, monthly: the day overflows February and the result lands in
\* March, later than the input, which is unchanged.
MonthEndOverflow ==
    /\ result # NULL
    /\ intervalArg = "MONTHLY"
    /\ getMonth(given) = 0
    /\ getDate(given) = 31
    /\ getMonth(result) = 2
    /\ dateArg = given

\* --------------------------------------------------------------- C11
\* C11: a firing of the trigger emits one event, carrying id and owner id,
\* for each stored row that is recurring, COMPLETED and either never
\* processed or with a next date not after the clock, emits none for any
\* other row, and leaves the rows and the balances as they are.
SelectorExact ==
    [][ (triggers' # triggers) =>
          LET selected ==
                  { id \in DOMAIN transactions :
                      /\ transactions[id].isRecurring
                      /\ transactions[id].status = "COMPLETED"
                      /\ \/ transactions[id].lastProcessed = NULL
                         \/ /\ transactions[id].nextRecurringDate # NULL
                            /\ transactions[id].nextRecurringDate <= now }
          IN  /\ events' = events (+) SetToBag(
                     { [transactionId |-> id, userId |-> transactions[id].userId] :
                         id \in selected })
              /\ transactions' = transactions
              /\ accounts' = accounts
      ]_vars

\* The trigger fired once: the first row, due as of this instant, got its
\* event; the second, recurring and never processed but not COMPLETED, got
\* none.
DueSelectedOtherStatusNot ==
    /\ triggers = 1
    /\ transactions[1].isRecurring /\ transactions[1].status = "COMPLETED"
    /\ transactions[1].lastProcessed # NULL
    /\ transactions[1].nextRecurringDate = now
    /\ transactions[2].isRecurring /\ transactions[2].status = "FAILED"
    /\ transactions[2].lastProcessed = NULL
    /\ BagToSet(events) = { [transactionId |-> 1, userId |-> 1] }
    /\ CopiesIn([transactionId |-> 1, userId |-> 1], events) = 1

\* --------------------------------------------------------------- C12
\* C12: a run handed an event without transactionId or without userId ends
\* at once with the returned error value: it is counted as rejected, is not
\* retried, never reaches the step, and no row and no balance changes.
MalformedEventRejected ==
    [][ \A j \in JobIds :
          (\E e \in BagToSet(events) :
              /\ e.transactionId = NULL \/ e.userId = NULL
              /\ events' = events (-) SetToBag({e}))
          => /\ rejected' = rejected + 1
             /\ jobs'[j] = IdleJob
             /\ transactions' = transactions
             /\ accounts' = accounts
             /\ spawned' = spawned
      ]_vars

\* Both malformed events were answered with the error value; nothing was
\* posted and the balances are the initial ones.
BothMalformedRejected ==
    /\ rejected = 2
    /\ events = EmptyBag
    /\ spawned = <<>>
    /\ Len(transactions) = 2
    /\ \A a \in AccountIds : accounts[a] = InitialBalance(a)


\* ----------------------------------------------------------------------
\* C13  Isolate-and-continue: when the work of one owner fails in a
\* monthly-report run, the run still attempts the report of every later owner
\* of the list, so a run that is over has reached the last owner.
\* ----------------------------------------------------------------------
LaterOwnersStillAttempted ==
    report.pc \in {"done", "failed"} => report.index >= Len(UserList)


\* ----------------------------------------------------------------------
\* C14  Insight fallback: when the text-generation call throws or its reply
\* cannot be parsed, generateFinancialInsights returns the three static
\* strings and hands no error to the report step: the step goes on to the
\* mail without being run again, and the mail carries the insights returned.
\* ----------------------------------------------------------------------
InsightFallback ==
    [][ /\ (report.pc = "insights" /\ report' # report) =>
              /\ report'.pc = "mail"
              /\ report'.index = report.index
              /\ report'.attempts = report.attempts
              /\ report'.stats = report.stats
              /\ report'.reply \in {"throws", "unparsable"} =>
                    report'.insights = FallbackInsights
        /\ \A u \in Users :
              reportsSent'[u] # reportsSent[u] =>
                 /\ report.pc = "mail"
                 /\ insightsSent'[u] = report.insights ]_vars

FallbackReportSent ==
    \E u \in Users :
        /\ reportsSent[u] >= 1
        /\ insightsSent[u] = FallbackInsights


\* ----------------------------------------------------------------------
\* C15  Aggregation correctness: totalIncome is the sum of the INCOME
\* amounts fetched, totalExpenses the sum of the EXPENSE amounts, byCategory
\* maps each category to the sum of its EXPENSE amounts only, transactionCount
\* is the number of postings fetched; being functions of the set fetched, the
\* figures do not depend on the order of the postings.  Nothing is written.
\* ----------------------------------------------------------------------
RECURSIVE DecimalSum(_)
DecimalSum(S) ==
    IF S = {} THEN 0
    ELSE LET i == CHOOSE i \in S : TRUE
         IN  transactions[i].amount + DecimalSum(S \ {i})

FetchedOfType(type) ==
    { fetchedRows[k] : k \in { k \in DOMAIN fetchedRows :
                                 transactions[fetchedRows[k]].type = type } }

FetchedExpensesOf(category) ==
    { i \in FetchedOfType("EXPENSE") : transactions[i].category = category }

AggregationExact ==
    monthlyStats # NotCalled =>
        /\ monthlyStats.totalIncome = DecimalSum(FetchedOfType("INCOME"))
        /\ monthlyStats.totalExpenses = DecimalSum(FetchedOfType("EXPENSE"))
        /\ DOMAIN monthlyStats.byCategory =
              { transactions[i].category : i \in FetchedOfType("EXPENSE") }
        /\ \A c \in DOMAIN monthlyStats.byCategory :
              monthlyStats.byCategory[c] = DecimalSum(FetchedExpensesOf(c))
        /\ monthlyStats.transactionCount = Len(fetchedRows)

\* ----------------------------------------------------------------------
\* C16  Aggregator month window: getMonthlyStats(owner, month) counts every
\* posting of the owner dated in the calendar month of the reference date,
\* at whatever time of the first or of the last day, and no other posting.
\* ----------------------------------------------------------------------
InCalendarMonth(date, month) ==
    /\ getFullYear(date) = getFullYear(month)
    /\ getMonth(date) = getMonth(month)

WholeMonthCounted ==
    monthlyStats # NotCalled =>
        { fetchedRows[k] : k \in DOMAIN fetchedRows } =
            { i \in DOMAIN transactions :
                /\ transactions[i].userId = userArg
                /\ InCalendarMonth(transactions[i].date, monthArg) }


\* ----------------------------------------------------------------------
\* C17  Budget month-to-date window: the expense total a check works with
\* covers the EXPENSE postings of the owner on the default account dated from
\* the start of the first day of the current month up to now, at whatever time
\* of day the check runs: it is not less than their sum.
\* ----------------------------------------------------------------------
MonthToDate(userId, accountId, today) ==
    DecimalSum({ i \in DOMAIN transactions :
                   /\ transactions[i].userId = userId
                   /\ transactions[i].accountId = accountId
                   /\ transactions[i].type = "EXPENSE"
                   /\ transactions[i].date >= NewDateOf(getFullYear(today), getMonth(today), 1)
                   /\ transactions[i].date <= today })

TotalCoversMonthToDate ==
    [][ \A r \in RunIds :
          (runs[r].pc = "check" /\ runs'[r] # runs[r]) =>
              LET budget == runs[r].list[runs[r].index]
              IN  runs'[r].totalExpenses >=
                      toNumber(MonthToDate(budget.userId, budget.account, now)) ]_vars


\* ----------------------------------------------------------------------
\* C18  No stuck or immediately re-due schedule: once the processor has
\* committed a posting for a template the selector can return (isRecurring,
\* COMPLETED), the template's nextRecurringDate is strictly later than its
\* lastProcessed, whatever its stored recurringInterval.
\* ----------------------------------------------------------------------
NextDueAfterLastProcessed ==
    \A i \in DOMAIN spawned :
        LET t == transactions[spawned[i].template]
        IN  (t.isRecurring /\ t.status = "COMPLETED") =>
                t.nextRecurringDate > t.lastProcessed

\* ----------------------------------------------------------------------
\* C19  The processor posts only for real recurring templates: a posting is
\* committed only for a transaction that is, when the posting is committed,
\* one the selector would return: isRecurring, COMPLETED, and with
\* lastProcessed unset or nextRecurringDate set and reached.
\* ----------------------------------------------------------------------
OnlyDueTemplatesPosted ==
    [][ Len(spawned') > Len(spawned) =>
            spawned'[Len(spawned')].template \in DueTemplates ]_vars


\* ----------------------------------------------------------------------
\* C20  Budget alert one-shot under overlapping runs: as long as every
\* notification send has succeeded and no step has thrown (so every write of
\* lastAlertSent that was tried succeeded), at most one evaluator run has sent
\* a notification for a budget.
\* ----------------------------------------------------------------------
AllSendsAndWritesSucceeded ==
    \A r \in RunIds :
        /\ runs[r].pc # "failed"
        /\ runs[r].attempts = 0
        /\ \A b \in BudgetIds : sends[r][b] = delivered[r][b] /\ sends[r][b] <= 1

OneAlertAcrossOverlappingRuns ==
    AllSendsAndWritesSucceeded =>
        \A b \in BudgetIds :
            Cardinality({ r \in RunIds : delivered[r][b] >= 1 }) <= 1

=============================================================================
